---- MODULE Spec2Model ----
(***************************************************************************)
(* Claims worklist (Home, frontend/src/app/page.tsx) and claim detail page *)
(* (ClaimDetailPage) of the POC front end, as one state machine.           *)
(*                                                                         *)
(* One page is mounted at a time.  A page's React state is the set of its  *)
(* useState cells; every handler and every continuation of an async        *)
(* function runs to its next await as one step, and the state updates it   *)
(* makes are applied together (React batches them into one render).        *)
(* Requests in flight are records in `net`; they resolve in any order.     *)
(***************************************************************************)
EXTENDS Integers, Sequences, FiniteSets, TLC

\* ---------------------------------------------------------------- bounds
NumClaims == 2          \* claim ids 1..NumClaims
MaxNav == 1             \* navigations (row click, return link, id change)
MaxRequests == 4        \* requests sent in one behaviour

ClaimIds == 1..NumClaims

\* ------------------------------------------------- nullable values (T | null)
None == <<>>
Some(x) == <<x>>
IsSome(o) == o # None
Val(o) == o[1]

\* JavaScript truthiness of a `string | null | undefined` value.
TruthyStr(o) == IsSome(o) /\ Val(o) # ""

\* ---------------------------------------------- responses of the service
\* POST /verify/{id}: the AuditResult fields the classifier reads.
StatusValues == {None, Some("warning"), Some("error"), Some("ok"), Some("Warning")}
RawOutputValues == {None, Some(""), Some("LLM parse failed")}
VerdictValues == {None, Some("APPROVED"), Some("DENIED")}

MessageValues == {None, Some("timeout")}

\* Coding flags, as character sequences.
DeniedFlag == <<"D", "E", "N", "I", "E", "D", ":", "9">>
MixedCaseFlag == <<"D", "e", "n", "i", "e", "d", " ", "-">>
InnerDeniedFlag == <<"x", "D", "E", "N", "I", "E", "D">>
AdvisoryFlag == <<"m", "o", "d">>
LowerCaseFlag == <<"d", "e", "n", "i", "e", "d", ":", "9">>
ShortFlag == <<"D", "E", "N", "I", "E">>
BareDeniedFlag == <<"D", "E", "N", "I", "E", "D">>

CodingFlagsValues ==
    {None, Some(<<>>), Some(<<DeniedFlag, AdvisoryFlag>>),
     Some(<<MixedCaseFlag, InnerDeniedFlag, DeniedFlag, LowerCaseFlag, ShortFlag,
            BareDeniedFlag>>)}

\* The optional fields behind the sections of the structured rendering.
MissingCriteriaValues == {None, Some(<<>>), Some(<<"prior auth">>)}
SuggestedFixValues == {None, Some(""), Some(" "), Some("attach notes")}
StepFailedValues == {None, Some(""), Some("eligibility")}
PolicySourceValues == {None, Some(""), Some("LCD L34567")}
ConfidenceScoreValues == {None, Some(0), Some(87)}

\* Bodies that vary the fields the classifier reads ...
ClassifierBodies ==
    [status : StatusValues, raw_output : RawOutputValues, verdict : VerdictValues,
     message : {None}, coding_flags : {None}, missing_criteria : {None},
     suggested_fix : {None}, step_failed : {None}, policy_source : {None},
     confidence_score : {None}]

\* ... bodies that vary the message and the coding flags ...
FlagBodies ==
    [status : {None, Some("warning"), Some("error")}, raw_output : {None},
     verdict : {Some("DENIED")}, message : MessageValues,
     coding_flags : CodingFlagsValues \ {None}, missing_criteria : {None},
     suggested_fix : {None}, step_failed : {None}, policy_source : {None},
     confidence_score : {None}]

\* ... and verdict bodies that vary the optional fields: every value of one
\* field, with the other fields either all absent or all present.
AllAbsent ==
    [status |-> None, raw_output |-> None, verdict |-> Some("DENIED"),
     message |-> None, coding_flags |-> None, missing_criteria |-> None,
     suggested_fix |-> None, step_failed |-> None, policy_source |-> None,
     confidence_score |-> None]

AllPresent ==
    [status |-> None, raw_output |-> None, verdict |-> Some("DENIED"),
     message |-> None, coding_flags |-> Some(<<DeniedFlag, AdvisoryFlag>>),
     missing_criteria |-> Some(<<"prior auth">>),
     suggested_fix |-> Some("attach notes"), step_failed |-> Some("eligibility"),
     policy_source |-> Some("LCD L34567"), confidence_score |-> Some(87)]

SectionBodies ==
    UNION {   {[base EXCEPT !.coding_flags = v] : v \in CodingFlagsValues}
         \cup {[base EXCEPT !.missing_criteria = v] : v \in MissingCriteriaValues}
         \cup {[base EXCEPT !.suggested_fix = v] : v \in SuggestedFixValues}
         \cup {[base EXCEPT !.step_failed = v] : v \in StepFailedValues}
         \cup {[base EXCEPT !.policy_source = v] : v \in PolicySourceValues}
         \cup {[base EXCEPT !.confidence_score = v] : v \in ConfidenceScoreValues}
         : base \in {AllAbsent, AllPresent} }

AuditResult == ClassifierBodies \cup FlagBodies \cup SectionBodies

\* GET /claims/{id}: the Claim record of claim i.
Claim(i) == [id |-> i, patient_id |-> <<"P", "1">>, status |-> "denied"]

\* Non-success HTTP statuses the service answers with.
NotOkStatuses == {404, 500}

\* A thrown value: an Error with its message (every value thrown inside the
\* three try blocks is an Error: the explicit `new Error`, fetch's TypeError,
\* res.json()'s SyntaxError).
Thrown(msg) == [isError |-> TRUE, message |-> msg]

ClaimNotFound(s) == Thrown(IF s = 404 THEN "Claim not found (404)" ELSE "Claim not found (500)")
VerificationFailed(s) ==
    Thrown(IF s = 404 THEN "Verification failed (404)" ELSE "Verification failed (500)")
FailedToFetchClaims(s) ==
    Thrown(IF s = 404 THEN "Failed to fetch claims (404)" ELSE "Failed to fetch claims (500)")
NetworkError == Thrown("Failed to fetch")
JsonSyntaxError == Thrown("Unexpected token < in JSON at position 0")

\* How a request that threw ended (history only).
OutcomeOf(err) ==
    IF err = NetworkError THEN "network"
    ELSE IF err = JsonSyntaxError THEN "parse"
    ELSE "http"

\* err instanceof Error ? err.message : fallback
ErrMessage(err, fallback) == IF err.isError THEN err.message ELSE fallback

VARIABLES
    page,            \* which route is mounted: "home" | "detail"
    \* Home
    claims, filteredClaims, listLoading, listError, searchQuery,
    \* ClaimDetailPage
    id, claim, loading, error, audit, auditing, auditError,
    \* requests in flight: [n, kind, id, stage]
    net,
    \* history
    nreq,            \* requests sent so far
    navs,            \* navigations so far
    lastStep,        \* kind of the last step taken
    auditFor,        \* claim id the held audit result / error was requested for
    claimFor,        \* claim id the held claim record / load error was requested for
    auditOutcome,    \* how the last audit request of this page ended
    loadOutcome,     \* how the last load request of this page ended
    lastBody         \* the last verification body this page received

homeVars == <<claims, filteredClaims, listLoading, listError, searchQuery>>
detailVars == <<id, claim, loading, error, audit, auditing, auditError>>
histVars == <<nreq, navs, lastStep, auditFor, claimFor, auditOutcome, loadOutcome, lastBody>>
vars == <<page, homeVars, detailVars, net, histVars>>

Request(n, kind, i) == [n |-> n, kind |-> kind, id |-> i, stage |-> "fetch"]
InFlight(kind) == {r \in net : r.kind = kind}

\* ------------------------------------------------------------------ strings
\* A string is the sequence of its characters.
\* The character U+00DF (sharp s): its lower case is itself, its upper case
\* is the two characters "SS".
Eszett == "sharp-s"

ToLowerChar(c) ==
    CASE c = "P" -> "p"
      [] c = "A" -> "a"
      [] c = "X" -> "x"
      [] c = "S" -> "s"
      [] OTHER -> c

\* Upper case of one character: a string, since it can be longer than one.
ToUpperChar(c) ==
    CASE c = "p" -> <<"P">>
      [] c = "a" -> <<"A">>
      [] c = "x" -> <<"X">>
      [] c = "s" -> <<"S">>
      [] c = Eszett -> <<"S", "S">>
      [] OTHER -> <<c>>

\* String.prototype.toUpperCase
RECURSIVE ToUpperCase(_)
ToUpperCase(s) ==
    IF s = <<>> THEN <<>> ELSE ToUpperChar(Head(s)) \o ToUpperCase(Tail(s))

\* String.prototype.toLowerCase
ToLowerCase(s) == [k \in DOMAIN s |-> ToLowerChar(s[k])]

IsWhitespace(c) == c = " "

\* String.prototype.trim
RECURSIVE TrimStart(_)
TrimStart(s) ==
    IF s # <<>> /\ IsWhitespace(Head(s)) THEN TrimStart(Tail(s)) ELSE s

RECURSIVE TrimEnd(_)
TrimEnd(s) ==
    IF s # <<>> /\ IsWhitespace(s[Len(s)]) THEN TrimEnd(SubSeq(s, 1, Len(s) - 1)) ELSE s

Trim(s) == TrimEnd(TrimStart(s))

\* String.prototype.includes
Includes(s, q) ==
    \E k \in 0..(Len(s) - Len(q)) : SubSeq(s, k + 1, k + Len(q)) = q

\* --------------------------------------------------------------------- Home
\* GET /claims: the lists the service answers with.
Entry(i, pid, payer, st) ==
    [id |-> i, patient_id |-> pid, payer_name |-> payer, status |-> st]

ClaimLists ==
    { <<>>,
      << Entry(1, <<"P", "1">>, Some(<<"A", "x">>), <<"p">>) >>,
      << Entry(1, <<"P", "1">>, Some(<<"A", "x">>), <<"p">>),
         Entry(2, <<"p", "2">>, None, <<"a">>) >>,
      << Entry(2, <<"x", "2">>, Some(<<>>), <<"a">>),
         Entry(1, <<"a", "1">>, Some(<<"P", " ", "a">>), <<"x">>) >>,
      << Entry(2, <<"A", "P">>, None, <<"2">>),
         Entry(1, <<"P", "1">>, Some(<<"a", "X">>), <<"p">>) >>,
      << Entry(1, <<"s", "s", "1">>, Some(<<"A", Eszett>>), <<"a">>),
         Entry(2, <<"x", "2">>, Some(<<"a", "S", "s">>), <<"p">>) >> }

\* What the user types into the filter input.
Queries ==
    { <<>>, <<" ">>, <<"p">>, <<"P", "1">>, <<" ", "a">>, <<"A", "X", " ">>, <<"2">>,
      <<Eszett>>, <<"s">> }

\* Matches that looks into the status field too.
MatchesAnyField(c, query) ==
    \/ Includes(ToLowerCase(c.patient_id), query)
    \/ (IsSome(c.payer_name) /\ Val(c.payer_name) # <<>>
        /\ Includes(ToLowerCase(Val(c.payer_name)), query))
    \/ Includes(ToLowerCase(c.status), query)

\* The predicate of claims.filter(...) at page.tsx:49-51.
Matches(c, query) ==
    \/ Includes(ToLowerCase(c.patient_id), query)
    \/ (IsSome(c.payer_name) /\ Val(c.payer_name) # <<>>
        /\ Includes(ToLowerCase(Val(c.payer_name)), query))

\* Filter that puts the matches in reverse order.
FilterReversed(L, q) ==
    LET query == Trim(ToLowerCase(q))
        kept == SelectSeq(L, LAMBDA c : Matches(c, query))
    IN  IF query = <<>> THEN L
        ELSE [k \in DOMAIN kept |-> kept[Len(kept) + 1 - k]]

\* Filter without .trim().
FilterNoTrim(L, q) ==
    LET query == ToLowerCase(q)
    IN  IF query = <<>> THEN L
        ELSE SelectSeq(L, LAMBDA c : Matches(c, query))

\* Filter without .toLowerCase() on the query.
FilterNoLowerQuery(L, q) ==
    LET query == Trim(q)
    IN  IF query = <<>> THEN L
        ELSE SelectSeq(L, LAMBDA c : Matches(c, query))

\* Filter that leaves out the first match (an off-by-one in the copy loop).
FilterSkipsFirst(L, q) ==
    LET query == Trim(ToLowerCase(q))
        kept == SelectSeq(L, LAMBDA c : Matches(c, query))
    IN  IF query = <<>> THEN L
        ELSE IF kept = <<>> THEN <<>> ELSE Tail(kept)

\* Filter that keeps a claim when any one character of the query occurs in it.
FilterAnyChar(L, q) ==
    LET query == Trim(ToLowerCase(q))
    IN  IF query = <<>> THEN L
        ELSE SelectSeq(L, LAMBDA c : \E k \in DOMAIN query : Matches(c, <<query[k]>>))

\* The body of the filter effect: the value it passes to setFilteredClaims.
Filter(L, q) ==
    LET query == Trim(ToLowerCase(q))
    IN  IF query = <<>> THEN L
        ELSE SelectSeq(L, LAMBDA c : Matches(c, query))

\* Which of the three returns of Home renders.
HomeView ==
    IF listLoading THEN "loading"
    ELSE IF TruthyStr(listError) THEN "error"
    ELSE "table"

\* The links and buttons of Home's error return: two paragraphs, nothing to
\* follow or press.
HomeErrorLinks == {}

\* ---------------------------------------------------------- ClaimDetailPage
\* Which of the three returns of ClaimDetailPage renders.
DetailView ==
    IF loading THEN "loading"
    ELSE IF TruthyStr(error) \/ claim = None THEN "error"
    ELSE "detail"

\* The links of ClaimDetailPage's error return: RETURN TO WORKLIST.
DetailErrorLinks == {"/"}

\* IdleBlock without its auditError conjunct.
IdleBlockIgnoringError == audit = None /\ ~auditing

\* The condition of the "Ready to Audit" block, which holds the trigger button.
IdleBlock == audit = None /\ ~auditing /\ ~TruthyStr(auditError)

\* Classify with the raw_output test ahead of the status test.
ClassifyRawFirst(a) ==
    IF TruthyStr(a.raw_output) THEN "RawFallback"
    ELSE IF a.status = Some("warning") \/ a.status = Some("error") THEN "PipelineWarningError"
    ELSE "StructuredVerdict"

\* Classify with a presence test (raw_output != null) in place of truthiness.
ClassifyRawPresent(a) ==
    IF a.status = Some("warning") \/ a.status = Some("error") THEN "PipelineWarningError"
    ELSE IF IsSome(a.raw_output) THEN "RawFallback"
    ELSE "StructuredVerdict"

\* The ternary chain that picks the result rendering of a non-null audit.
Classify(a) ==
    IF a.status = Some("warning") \/ a.status = Some("error") THEN "PipelineWarningError"
    ELSE IF TruthyStr(a.raw_output) THEN "RawFallback"
    ELSE "StructuredVerdict"

\* The blocks the verification column renders, one per JSX condition.
PanelBlocks ==
    (IF IdleBlock THEN {"Idle"} ELSE {})
    \cup (IF auditing THEN {"Running"} ELSE {})
    \cup (IF TruthyStr(auditError) THEN {"TransportFailed"} ELSE {})
    \cup (IF audit # None /\ ~auditing THEN {Classify(Val(audit))} ELSE {})

\* StartsWith that finds the prefix anywhere in the string.
StartsWithAnywhere(s, prefix) == Includes(s, prefix)

\* String.prototype.startsWith
StartsWith(s, prefix) ==
    Len(s) >= Len(prefix) /\ SubSeq(s, 1, Len(prefix)) = prefix

\* audit.coding_flags && audit.coding_flags.length > 0
HasFlags(a) == IsSome(a.coding_flags) /\ Len(Val(a.coding_flags)) > 0

\* The head of the warning / error branch: [status] and the message.
WarningHead(a) == [label |-> Val(a.status), message |-> a.message]

\* The "Coding Alerts" items of the warning / error branch: each <li> holds
\* the flag text and nothing else.
WarningFlagItems(a) ==
    IF HasFlags(a)
    THEN [k \in DOMAIN Val(a.coding_flags) |->
             [text |-> Val(a.coding_flags)[k], denied |-> FALSE]]
    ELSE <<>>

\* The "Coding Alerts" items of the structured branch: a flag that starts
\* with "DENIED" gets the bold [DENIED] marker.
StructuredFlagItems(a) ==
    IF HasFlags(a)
    THEN [k \in DOMAIN Val(a.coding_flags) |->
             [text |-> Val(a.coding_flags)[k],
              denied |-> StartsWith(Val(a.coding_flags)[k], <<"D", "E", "N", "I", "E", "D">>)]]
    ELSE <<>>

\* The flag items of the result block that renders.
FlagItems(a) ==
    CASE Classify(a) = "PipelineWarningError" -> WarningFlagItems(a)
      [] Classify(a) = "StructuredVerdict" -> StructuredFlagItems(a)
      [] OTHER -> <<>>

\* audit.confidence_score && (...): a truthiness test in place of != null.
ConfidenceRenderedIfTruthy(a) == IsSome(a.confidence_score) /\ Val(a.confidence_score) # 0

\* audit.confidence_score != null
ConfidenceRendered(a) == IsSome(a.confidence_score)

\* audit.missing_criteria && audit.missing_criteria.length > 0
MissingCriteriaRendered(a) ==
    IsSome(a.missing_criteria) /\ Len(Val(a.missing_criteria)) > 0

\* The optional sections the structured branch renders, one per JSX condition.
StructuredSections(a) ==
    (IF TruthyStr(a.step_failed) THEN {"step_failed"} ELSE {})
    \cup (IF TruthyStr(a.policy_source) THEN {"policy_source"} ELSE {})
    \cup (IF ConfidenceRendered(a) THEN {"confidence_score"} ELSE {})
    \cup (IF HasFlags(a) THEN {"coding_flags"} ELSE {})
    \cup (IF MissingCriteriaRendered(a) THEN {"missing_criteria"} ELSE {})
    \cup (IF TruthyStr(a.suggested_fix) THEN {"suggested_fix"} ELSE {})

\* The optional sections of the result block that renders.
Sections(a) ==
    CASE Classify(a) = "StructuredVerdict" -> StructuredSections(a)
      [] Classify(a) = "PipelineWarningError" ->
            (IF HasFlags(a) THEN {"coding_flags"} ELSE {})
      [] OTHER -> {}

\* The text the Raw Output block shows.
RawText(a) == Val(a.raw_output)

\* What the user sees in the verification column (nothing unless the
\* three-column layout is rendered).
Displayed == IF page = "detail" /\ DetailView = "detail" THEN PanelBlocks ELSE {}

\* ------------------------------------------------------- mounting a page
\* Initial useState values of Home and the request its mount effect sends.
HomeMounted ==
    /\ claims' = <<>>
    /\ filteredClaims' = <<>>
    /\ listLoading' = TRUE
    /\ listError' = None
    /\ searchQuery' = <<>>

\* Initial useState values of ClaimDetailPage.
DetailMounted ==
    /\ claim' = None
    /\ loading' = TRUE
    /\ error' = None
    /\ audit' = None
    /\ auditing' = FALSE
    /\ auditError' = None

Init ==
    /\ claims = <<>> /\ filteredClaims = <<>> /\ listLoading = TRUE
    /\ listError = None /\ searchQuery = <<>>
    /\ claim = None /\ loading = TRUE /\ error = None
    /\ audit = None /\ auditing = FALSE /\ auditError = None
    /\ nreq = 1 /\ navs = 0 /\ lastStep = "open"
    /\ auditFor = None /\ claimFor = None /\ auditOutcome = "none"
    /\ loadOutcome = "pending" /\ lastBody = None
    /\ \/ page = "home" /\ id = 0 /\ net = {Request(1, "list", 0)}
       \/ page = "detail" /\ id \in ClaimIds /\ net = {Request(1, "claim", id)}

\* ------------------------------------------------------ Home: fetchClaims
\* await fetch(...) resolved with res.ok: the function goes on to res.json().
ListFetchOk(r) ==
    /\ page = "home" /\ r \in InFlight("list") /\ r.stage = "fetch"
    /\ net' = (net \ {r}) \cup {[r EXCEPT !.stage = "json"]}
    /\ lastStep' = "response"
    /\ UNCHANGED <<page, homeVars, detailVars, nreq, navs, auditFor, claimFor, auditOutcome>>
    /\ UNCHANGED loadOutcome
    /\ UNCHANGED lastBody

\* ListCatch without the finally block.
ListCatchNoFinally(r, err) ==
    /\ listError' = Some(ErrMessage(err, "Failed to load claims"))
    /\ net' = net \ {r}
    /\ lastStep' = "response"
    /\ UNCHANGED <<page, claims, filteredClaims, listLoading, searchQuery, detailVars,
                   nreq, navs, auditFor, claimFor, auditOutcome>>
    /\ loadOutcome' = OutcomeOf(err)
    /\ UNCHANGED lastBody

\* ListCatch with an empty catch block.
ListCatchSwallow(r, err) ==
    /\ listLoading' = FALSE
    /\ net' = net \ {r}
    /\ lastStep' = "response"
    /\ UNCHANGED <<page, claims, filteredClaims, listError, searchQuery, detailVars,
                   nreq, navs, auditFor, claimFor, auditOutcome>>
    /\ loadOutcome' = OutcomeOf(err)
    /\ UNCHANGED lastBody

\* catch + finally of fetchClaims.
ListCatch(r, err) ==
    /\ listError' = Some(ErrMessage(err, "Failed to load claims"))
    /\ listLoading' = FALSE
    /\ net' = net \ {r}
    /\ lastStep' = "response"
    /\ UNCHANGED <<page, claims, filteredClaims, searchQuery, detailVars,
                   nreq, navs, auditFor, claimFor, auditOutcome>>
    /\ loadOutcome' = OutcomeOf(err)
    /\ UNCHANGED lastBody
ListFetchNotOk(r, s) ==
    /\ page = "home" /\ r \in InFlight("list") /\ r.stage = "fetch"
    /\ ListCatch(r, FailedToFetchClaims(s))

ListFetchReject(r) ==
    /\ page = "home" /\ r \in InFlight("list") /\ r.stage = "fetch"
    /\ ListCatch(r, NetworkError)

ListJsonReject(r) ==
    /\ page = "home" /\ r \in InFlight("list") /\ r.stage = "json"
    /\ ListCatch(r, JsonSyntaxError)

\* res.json() resolved: setClaims, setFilteredClaims, finally setLoading(false),
\* then the filter effect, which runs because `claims` changed.
ListJsonOk(r, data) ==
    /\ page = "home" /\ r \in InFlight("list") /\ r.stage = "json"
    /\ claims' = data
    /\ filteredClaims' = Filter(data, searchQuery)
    /\ listLoading' = FALSE
    /\ net' = net \ {r}
    /\ lastStep' = "response"
    /\ UNCHANGED <<page, listError, searchQuery, detailVars,
                   nreq, navs, auditFor, claimFor, auditOutcome>>
    /\ loadOutcome' = "body"
    /\ UNCHANGED lastBody

\* SetSearchQuery whose effect filters by the query of the previous render.
SetSearchQueryStale(q) ==
    /\ page = "home" /\ HomeView = "table"
    /\ q # searchQuery
    /\ searchQuery' = q
    /\ filteredClaims' = Filter(claims, searchQuery)
    /\ lastStep' = "type"
    /\ UNCHANGED <<page, claims, listLoading, listError, detailVars, net,
                   nreq, navs, auditFor, claimFor, auditOutcome>>
    /\ UNCHANGED loadOutcome
    /\ UNCHANGED lastBody

\* SetSearchQuery whose effect stores the matches with setClaims as well.
SetSearchQueryOverwritesSource(q) ==
    /\ page = "home" /\ HomeView = "table"
    /\ q # searchQuery
    /\ searchQuery' = q
    /\ filteredClaims' = Filter(claims, q)
    /\ claims' = Filter(claims, q)
    /\ lastStep' = "type"
    /\ UNCHANGED <<page, listLoading, listError, detailVars, net,
                   nreq, navs, auditFor, claimFor, auditOutcome>>
    /\ UNCHANGED loadOutcome
    /\ UNCHANGED lastBody

\* onChange of the filter input, and the filter effect it causes.
SetSearchQuery(q) ==
    /\ page = "home" /\ HomeView = "table"
    /\ q # searchQuery
    /\ searchQuery' = q
    /\ filteredClaims' = Filter(claims, q)
    /\ lastStep' = "type"
    /\ UNCHANGED <<page, claims, listLoading, listError, detailVars, net,
                   nreq, navs, auditFor, claimFor, auditOutcome>>
    /\ UNCHANGED loadOutcome
    /\ UNCHANGED lastBody

\* handleRowClick(id): router.push(`/claim/${id}`).  Home unmounts (state
\* updates of its pending continuations are dropped with it) and
\* ClaimDetailPage mounts and runs fetchClaim.
HandleRowClick(i) ==
    /\ page = "home" /\ HomeView = "table"
    /\ \E k \in DOMAIN filteredClaims : filteredClaims[k].id = i
    /\ navs < MaxNav /\ nreq < MaxRequests
    /\ page' = "detail"
    /\ id' = i
    /\ DetailMounted
    /\ net' = {Request(nreq + 1, "claim", i)}
    /\ nreq' = nreq + 1
    /\ navs' = navs + 1
    /\ lastStep' = "open"
    /\ auditFor' = None /\ claimFor' = None /\ auditOutcome' = "none"
    /\ loadOutcome' = "pending"
    /\ HomeMounted      \* the unmounted page's state is discarded
    /\ lastBody' = None

\* ------------------------------------------- ClaimDetailPage: fetchClaim
ClaimFetchOk(r) ==
    /\ page = "detail" /\ r \in InFlight("claim") /\ r.stage = "fetch"
    /\ net' = (net \ {r}) \cup {[r EXCEPT !.stage = "json"]}
    /\ lastStep' = "response"
    /\ UNCHANGED <<page, homeVars, detailVars, nreq, navs, auditFor, claimFor, auditOutcome>>
    /\ UNCHANGED loadOutcome
    /\ UNCHANGED lastBody

\* catch + finally of fetchClaim.
ClaimCatch(r, err) ==
    /\ error' = Some(ErrMessage(err, "Failed to load claim"))
    /\ loading' = FALSE
    /\ net' = net \ {r}
    /\ lastStep' = "response"
    /\ claimFor' = Some(r.id)
    /\ UNCHANGED <<page, homeVars, id, claim, audit, auditing, auditError,
                   nreq, navs, auditFor, auditOutcome>>
    /\ loadOutcome' = OutcomeOf(err)
    /\ UNCHANGED lastBody
ClaimFetchNotOk(r, s) ==
    /\ page = "detail" /\ r \in InFlight("claim") /\ r.stage = "fetch"
    /\ ClaimCatch(r, ClaimNotFound(s))

ClaimFetchReject(r) ==
    /\ page = "detail" /\ r \in InFlight("claim") /\ r.stage = "fetch"
    /\ ClaimCatch(r, NetworkError)

ClaimJsonReject(r) ==
    /\ page = "detail" /\ r \in InFlight("claim") /\ r.stage = "json"
    /\ ClaimCatch(r, JsonSyntaxError)

\* res.json() resolved: setClaim(data), finally setLoading(false).
ClaimJsonOk(r) ==
    /\ page = "detail" /\ r \in InFlight("claim") /\ r.stage = "json"
    /\ claim' = Some(Claim(r.id))
    /\ loading' = FALSE
    /\ net' = net \ {r}
    /\ lastStep' = "response"
    /\ claimFor' = Some(r.id)
    /\ UNCHANGED <<page, homeVars, id, error, audit, auditing, auditError,
                   nreq, navs, auditFor, auditOutcome>>
    /\ loadOutcome' = "body"
    /\ UNCHANGED lastBody

\* --------------------------------------------- ClaimDetailPage: runAudit
\* TriggerRendered with the button outside the "Ready to Audit" block.
TriggerAlwaysRendered == page = "detail" /\ DetailView = "detail"

\* The "Run Verification" button is in the DOM.
TriggerRendered == page = "detail" /\ DetailView = "detail" /\ IdleBlock

\* onClick of the button: runAudit up to its first await.
RunAudit ==
    /\ TriggerRendered
    /\ nreq < MaxRequests
    /\ auditing' = TRUE
    /\ auditError' = None
    /\ audit' = None
    /\ net' = net \cup {Request(nreq + 1, "verify", id)}
    /\ nreq' = nreq + 1
    /\ lastStep' = "click"
    /\ auditFor' = None
    /\ auditOutcome' = "pending"
    /\ UNCHANGED <<page, homeVars, id, claim, loading, error, navs, claimFor>>
    /\ UNCHANGED loadOutcome
    /\ UNCHANGED lastBody
VerifyFetchOk(r) ==
    /\ page = "detail" /\ r \in InFlight("verify") /\ r.stage = "fetch"
    /\ net' = (net \ {r}) \cup {[r EXCEPT !.stage = "json"]}
    /\ lastStep' = "response"
    /\ UNCHANGED <<page, homeVars, detailVars, nreq, navs, auditFor, claimFor, auditOutcome>>
    /\ UNCHANGED loadOutcome
    /\ UNCHANGED lastBody

\* VerifyCatch that calls setError where the code calls setAuditError.
VerifyCatchSetsPageError(r, err, outcome) ==
    /\ error' = Some(ErrMessage(err, "Audit failed"))
    /\ auditing' = FALSE
    /\ net' = net \ {r}
    /\ lastStep' = "response"
    /\ auditFor' = Some(r.id)
    /\ auditOutcome' = outcome
    /\ UNCHANGED <<page, homeVars, id, claim, loading, audit, auditError, nreq, navs, claimFor>>
    /\ UNCHANGED loadOutcome
    /\ UNCHANGED lastBody

\* VerifyCatch without the finally block.
VerifyCatchNoFinally(r, err, outcome) ==
    /\ auditError' = Some(ErrMessage(err, "Audit failed"))
    /\ net' = net \ {r}
    /\ lastStep' = "response"
    /\ auditFor' = Some(r.id)
    /\ auditOutcome' = outcome
    /\ UNCHANGED <<page, homeVars, id, claim, loading, error, audit, auditing,
                   nreq, navs, claimFor>>
    /\ UNCHANGED loadOutcome
    /\ UNCHANGED lastBody

\* VerifyCatch with an empty catch block.
VerifyCatchSwallow(r, err, outcome) ==
    /\ auditing' = FALSE
    /\ net' = net \ {r}
    /\ lastStep' = "response"
    /\ auditFor' = Some(r.id)
    /\ auditOutcome' = outcome
    /\ UNCHANGED <<page, homeVars, id, claim, loading, error, audit, auditError,
                   nreq, navs, claimFor>>
    /\ UNCHANGED loadOutcome
    /\ UNCHANGED lastBody

\* VerifyCatch that sends the request again.
VerifyCatchRetry(r, err, outcome) ==
    /\ nreq < MaxRequests
    /\ net' = (net \ {r}) \cup {Request(nreq + 1, "verify", r.id)}
    /\ nreq' = nreq + 1
    /\ lastStep' = "response"
    /\ auditOutcome' = outcome
    /\ UNCHANGED <<page, homeVars, detailVars, navs, auditFor, claimFor>>
    /\ UNCHANGED loadOutcome
    /\ UNCHANGED lastBody

\* catch + finally of runAudit.
VerifyCatch(r, err, outcome) ==
    /\ auditError' = Some(ErrMessage(err, "Audit failed"))
    /\ auditing' = FALSE
    /\ net' = net \ {r}
    /\ lastStep' = "response"
    /\ auditFor' = Some(r.id)
    /\ auditOutcome' = outcome
    /\ UNCHANGED <<page, homeVars, id, claim, loading, error, audit, nreq, navs, claimFor>>
    /\ UNCHANGED loadOutcome
    /\ UNCHANGED lastBody

\* VerifyFetchNotOk without the res.ok test: the body is read and set.
VerifyFetchNotOkUnchecked(r, s) ==
    /\ page = "detail" /\ r \in InFlight("verify") /\ r.stage = "fetch"
    /\ \E data \in AuditResult : audit' = Some(data)
    /\ auditing' = FALSE
    /\ net' = net \ {r}
    /\ lastStep' = "response"
    /\ auditFor' = Some(r.id)
    /\ auditOutcome' = "http"
    /\ UNCHANGED <<page, homeVars, id, claim, loading, error, auditError, nreq, navs, claimFor>>
    /\ UNCHANGED loadOutcome
    /\ UNCHANGED lastBody
VerifyFetchNotOk(r, s) ==
    /\ page = "detail" /\ r \in InFlight("verify") /\ r.stage = "fetch"
    /\ VerifyCatch(r, VerificationFailed(s), "http")

VerifyFetchReject(r) ==
    /\ page = "detail" /\ r \in InFlight("verify") /\ r.stage = "fetch"
    /\ VerifyCatch(r, NetworkError, "network")

VerifyJsonReject(r) ==
    /\ page = "detail" /\ r \in InFlight("verify") /\ r.stage = "json"
    /\ VerifyCatch(r, JsonSyntaxError, "parse")

\* VerifyJsonOk without the finally block.
VerifyJsonOkNoFinally(r, data) ==
    /\ page = "detail" /\ r \in InFlight("verify") /\ r.stage = "json"
    /\ audit' = Some(data)
    /\ net' = net \ {r}
    /\ lastStep' = "response"
    /\ auditFor' = Some(r.id)
    /\ auditOutcome' = "body"
    /\ UNCHANGED <<page, homeVars, id, claim, loading, error, auditing, auditError,
                   nreq, navs, claimFor>>
    /\ UNCHANGED loadOutcome
    /\ lastBody' = Some(data)

\* VerifyJsonOk that copies the body field by field and skips falsy values, so
\* a confidence_score of 0 does not reach the state cell.
VerifyJsonOkFieldwise(r, data) ==
    /\ page = "detail" /\ r \in InFlight("verify") /\ r.stage = "json"
    /\ audit' = Some([data EXCEPT !.confidence_score =
                                    IF @ = Some(0) THEN None ELSE @])
    /\ auditing' = FALSE
    /\ net' = net \ {r}
    /\ lastStep' = "response"
    /\ auditFor' = Some(r.id)
    /\ auditOutcome' = "body"
    /\ UNCHANGED <<page, homeVars, id, claim, loading, error, auditError, nreq, navs, claimFor>>
    /\ UNCHANGED loadOutcome
    /\ lastBody' = Some(data)

\* res.json() resolved: setAudit(data), finally setAuditing(false).
VerifyJsonOk(r, data) ==
    /\ page = "detail" /\ r \in InFlight("verify") /\ r.stage = "json"
    /\ audit' = Some(data)
    /\ auditing' = FALSE
    /\ net' = net \ {r}
    /\ lastStep' = "response"
    /\ auditFor' = Some(r.id)
    /\ auditOutcome' = "body"
    /\ UNCHANGED <<page, homeVars, id, claim, loading, error, auditError, nreq, navs, claimFor>>
    /\ UNCHANGED loadOutcome
    /\ lastBody' = Some(data)

\* ------------------------------------------------------------ navigation
\* useParams() yields another id while the page stays mounted: no state cell
\* is reset, and the effect keyed on [id] runs fetchClaim for the new id.
ParamsIdChange(j) ==
    /\ page = "detail" /\ j # id
    /\ navs < MaxNav /\ nreq < MaxRequests
    /\ id' = j
    /\ net' = net \cup {Request(nreq + 1, "claim", j)}
    /\ nreq' = nreq + 1
    /\ navs' = navs + 1
    /\ lastStep' = "open"
    /\ UNCHANGED <<page, homeVars, claim, loading, error, audit, auditing, auditError,
                   auditFor, claimFor, auditOutcome>>
    /\ loadOutcome' = "pending"
    /\ UNCHANGED lastBody

\* The link to "/" (RETURN / RETURN TO WORKLIST): ClaimDetailPage unmounts,
\* Home mounts and runs fetchClaims.
ReturnToWorklist ==
    /\ page = "detail" /\ DetailView \in {"error", "detail"}
    /\ navs < MaxNav /\ nreq < MaxRequests
    /\ page' = "home"
    /\ HomeMounted
    /\ id' = 0
    /\ DetailMounted     \* the unmounted page's state is discarded
    /\ net' = {Request(nreq + 1, "list", 0)}
    /\ nreq' = nreq + 1
    /\ navs' = navs + 1
    /\ lastStep' = "open"
    /\ auditFor' = None /\ claimFor' = None /\ auditOutcome' = "none"
    /\ loadOutcome' = "pending"
    /\ lastBody' = None

Next ==
    \/ \E r \in net : ListFetchOk(r)
    \/ \E r \in net, s \in NotOkStatuses : ListFetchNotOk(r, s)
    \/ \E r \in net : ListFetchReject(r)
    \/ \E r \in net : ListJsonReject(r)
    \/ \E r \in net, data \in ClaimLists : ListJsonOk(r, data)
    \/ \E q \in Queries : SetSearchQuery(q)
    \/ \E i \in ClaimIds : HandleRowClick(i)
    \/ \E r \in net : ClaimFetchOk(r)
    \/ \E r \in net, s \in NotOkStatuses : ClaimFetchNotOk(r, s)
    \/ \E r \in net : ClaimFetchReject(r)
    \/ \E r \in net : ClaimJsonReject(r)
    \/ \E r \in net : ClaimJsonOk(r)
    \/ RunAudit
    \/ \E r \in net : VerifyFetchOk(r)
    \/ \E r \in net, s \in NotOkStatuses : VerifyFetchNotOk(r, s)
    \/ \E r \in net : VerifyFetchReject(r)
    \/ \E r \in net : VerifyJsonReject(r)
    \/ \E r \in net, data \in AuditResult : VerifyJsonOk(r, data)
    \/ \E j \in ClaimIds : ParamsIdChange(j)
    \/ ReturnToWorklist

Spec == Init /\ [][Next]_vars

\* The verification request resolves: one step of runAudit past an await.
VerifyResolves ==
    \E r \in net :
        \/ VerifyFetchOk(r)
        \/ \E s \in NotOkStatuses : VerifyFetchNotOk(r, s)
        \/ VerifyFetchReject(r)
        \/ VerifyJsonReject(r)
        \/ \E data \in AuditResult : VerifyJsonOk(r, data)

\* Spec under the assumption that a verification request in flight resolves.
LiveSpec == Spec /\ WF_vars(VerifyResolves)

\* ===================================================================== claims
ResultStates == {"PipelineWarningError", "RawFallback", "StructuredVerdict"}
PanelStates == {"Idle", "Running", "TransportFailed"} \cup ResultStates

\* A result is held and the result block renders it.
ResultShown == page = "detail" /\ audit # None /\ ~auditing

IsPipelineFailure(a) == a.status \in {Some("warning"), Some("error")}
HasRawOutput(a) == IsSome(a.raw_output) /\ Val(a.raw_output) # ""

\* C1: a held response body renders as Pipeline-Warning/Error exactly when its
\* status is "warning" or "error", and then as nothing else, whatever its
\* verdict and raw_output are.
C1_StatusWins ==
    ResultShown =>
        /\ ("PipelineWarningError" \in PanelBlocks) <=> IsPipelineFailure(Val(audit))
        /\ IsPipelineFailure(Val(audit)) => PanelBlocks = {"PipelineWarningError"}

C1_Witness ==
    /\ ResultShown
    /\ Val(audit).status = Some("error")
    /\ Val(audit).verdict = Some("APPROVED")
    /\ HasRawOutput(Val(audit))
    /\ Displayed = {"PipelineWarningError"}

\* C2: a held response body renders as Raw-Fallback exactly when its status is
\* not "warning"/"error" and its raw_output is a non-empty string; the block
\* then shows raw_output itself, also when a verdict is present, and an empty
\* raw_output never renders as Raw-Fallback.
C2_RawFallback ==
    ResultShown =>
        /\ ("RawFallback" \in PanelBlocks)
              <=> (~IsPipelineFailure(Val(audit)) /\ HasRawOutput(Val(audit)))
        /\ ("RawFallback" \in PanelBlocks)
              => (PanelBlocks = {"RawFallback"}
                  /\ RawText(Val(audit)) = Val(Val(audit).raw_output))
        /\ Val(audit).raw_output = Some("") => "RawFallback" \notin PanelBlocks

C2_Witness ==
    /\ ResultShown
    /\ Val(audit).status = Some("ok")
    /\ Val(audit).verdict = Some("DENIED")
    /\ Displayed = {"RawFallback"}

\* C3 as stated: after any response with a success status the panel is in a
\* result state (Structured-Verdict unless the body is a pipeline failure or a
\* raw fallback) and not in Transport-Failed.
C3_AsStated ==
    (page = "detail" /\ auditOutcome \in {"body", "parse"}) =>
        /\ PanelBlocks \cap ResultStates # {}
        /\ "TransportFailed" \notin PanelBlocks

\* C3 amended: after a response with a success status whose body parses, the
\* panel is in exactly one result state and not in Transport-Failed, and that
\* state is Structured-Verdict whenever the body is neither a pipeline failure
\* nor a raw fallback (the empty object and a body with another status
\* included).
C3_ParsedBodyGetsResult ==
    (page = "detail" /\ auditOutcome = "body") =>
        /\ audit # None
        /\ PanelBlocks \subseteq ResultStates
        /\ Cardinality(PanelBlocks) = 1
        /\ (~IsPipelineFailure(Val(audit)) /\ ~HasRawOutput(Val(audit)))
              => PanelBlocks = {"StructuredVerdict"}

C3_Witness ==
    /\ page = "detail" /\ auditOutcome = "body"
    /\ audit = Some([AllAbsent EXCEPT !.verdict = None])
    /\ Displayed = {"StructuredVerdict"}

\* C4: right after the trigger, and whenever auditing is true, the panel is
\* Running and holds neither a result nor a transport error.
C4_RunningIsClean ==
    /\ (page = "detail" /\ lastStep = "click") => auditing
    /\ (page = "detail" /\ auditing) =>
          (audit = None /\ auditError = None /\ PanelBlocks = {"Running"})

C4_Witness ==
    /\ page = "detail" /\ auditing /\ lastStep = "click"
    /\ Displayed = {"Running"}

\* C5: an audit result or audit error held by the detail page was requested for
\* the claim id that is open.
C5_NoAuditOfOtherClaim ==
    (page = "detail" /\ (audit # None \/ auditError # None)) => auditFor = Some(id)

\* C6: the verification panel of the detail page renders exactly one of the six
\* presentation states.
C6_ExactlyOneState ==
    page = "detail" =>
        /\ Cardinality(PanelBlocks) = 1
        /\ PanelBlocks \subseteq PanelStates

C6_Witness ==
    /\ Displayed = {"TransportFailed"}
    /\ audit = None /\ ~auditing

\* C7: at most one verification request is in flight, and while one is in
\* flight the trigger button is not rendered.
C7_OneAuditInFlight ==
    /\ Cardinality(InFlight("verify")) <= 1
    /\ InFlight("verify") # {} => ~TriggerRendered

C7_Witness ==
    /\ page = "detail" /\ DetailView = "detail"
    /\ \E r \in InFlight("verify") : r.stage = "json"

C9_TransportFailed ==
    /\ (page = "detail" /\ auditOutcome \in {"http", "network"}) =>
          /\ PanelBlocks = {"TransportFailed"}
          /\ IsSome(auditError) /\ Val(auditError) # ""
          /\ audit = None
    /\ (ResultShown /\ IsPipelineFailure(Val(audit))) =>
          /\ "TransportFailed" \notin PanelBlocks
          /\ auditError = None

C9_Witness ==
    /\ page = "detail" /\ auditOutcome = "http"
    /\ auditError = Some("Verification failed (500)")
    /\ Displayed = {"TransportFailed"}

\* C10: a step sends a request only if it is a trigger click (exactly one POST
\* /verify for the open id) or a page open (exactly one load request); a step
\* that handles a response, failures included, sends none.
NewRequests == {r \in net' : \A o \in net : o.n # r.n}

C10_Step ==
    /\ lastStep' = "click" =>
          (nreq' = nreq + 1 /\ NewRequests = {Request(nreq', "verify", id)})
    /\ lastStep' = "open" =>
          /\ nreq' = nreq + 1
          /\ NewRequests = {Request(nreq', IF page' = "home" THEN "list" ELSE "claim", id')}
    /\ lastStep' \in {"response", "type"} =>
          (nreq' = nreq /\ NewRequests = {})

C10_NoUnpromptedRequest == [][C10_Step]_vars

C10_Witness ==
    /\ page = "detail" /\ auditOutcome = "network"
    /\ lastStep = "response" /\ net = {} /\ nreq = 2

\* C11: whenever the panel shows Transport-Failed or a result, the trigger
\* button is rendered, so the audit can be started again for the open claim.
C11_RetriggerEnabled ==
    (Displayed = {"TransportFailed"} \/ Displayed \cap ResultStates # {}) => TriggerRendered

FailureOutcomes == {"http", "network", "parse"}

\* C12: after a failed list load, claim load or audit (non-success status,
\* network failure or unparseable body) the page holds a non-empty error value
\* for that operation and its waiting flag is false.
C12_FailuresBecomeLocalErrors ==
    /\ (page = "home" /\ loadOutcome \in FailureOutcomes) =>
          (TruthyStr(listError) /\ ~listLoading)
    /\ (page = "detail" /\ loadOutcome \in FailureOutcomes) =>
          (TruthyStr(error) /\ ~loading)
    /\ (page = "detail" /\ auditOutcome \in FailureOutcomes) =>
          (TruthyStr(auditError) /\ ~auditing)

C12_Witness ==
    /\ page = "home" /\ loadOutcome = "parse"
    /\ listError = Some("Unexpected token < in JSON at position 0")
    /\ HomeView = "error"

\* C13: a step of an audit (the trigger, or the handling of its response)
\* leaves the claim record, the loading flag and the load error unchanged, and
\* with them the branch of the page that renders.
AuditStep ==
    /\ page = "detail" /\ page' = "detail"
    /\ InFlight("verify")' # InFlight("verify")

C13_AuditLeavesPageAlone ==
    [][AuditStep => (UNCHANGED <<claim, loading, error>> /\ DetailView' = DetailView)]_vars

C13_Witness ==
    /\ page = "detail" /\ auditOutcome = "parse"
    /\ DetailView = "detail" /\ claim = Some(Claim(id)) /\ error = None

\* ------------------------------------------------------ worklist filter
\* The list has loaded and Home holds it.
ListLoaded == page = "home" /\ loadOutcome = "body"

\* S is L with some elements left out: same elements, same relative order.
IsSubsequence(S, L) ==
    \E f \in [DOMAIN S -> DOMAIN L] :
        /\ \A i, j \in DOMAIN S : i < j => f[i] < f[j]
        /\ \A i \in DOMAIN S : S[i] = L[f[i]]

\* "field contains the query, trimmed, case-insensitively".
ContainsQuery(field, q) == Includes(ToLowerCase(field), ToLowerCase(Trim(q)))

ShouldShow(c, q) ==
    \/ ContainsQuery(c.patient_id, q)
    \/ (c.payer_name # None /\ ContainsQuery(Val(c.payer_name), q))

IsRow(c) == \E k \in DOMAIN filteredClaims : filteredClaims[k] = c

C15_RowsAreSubsequence ==
    page = "home" =>
        /\ IsSubsequence(filteredClaims, claims)
        /\ \A i, j \in DOMAIN filteredClaims : i # j => filteredClaims[i] # filteredClaims[j]

C15_Witness ==
    /\ ListLoaded /\ searchQuery = <<"p">>
    /\ Len(filteredClaims) = 2 /\ filteredClaims = claims

\* C16: with a non-empty normalized query, a claim of the list is a row exactly
\* when its lowercased patient_id contains the query or its payer_name is
\* non-null and its lowercased form contains the query; a claim with a null
\* payer_name is a row only through patient_id, and an occurrence of the query
\* in another field does not make a claim a row.
C16_MatchRule ==
    LET query == Trim(ToLowerCase(searchQuery))
    IN  (ListLoaded /\ query # <<>>) =>
            \A k \in DOMAIN claims :
                LET c == claims[k]
                    byPatient == Includes(ToLowerCase(c.patient_id), query)
                    byPayer == c.payer_name # None
                               /\ Includes(ToLowerCase(Val(c.payer_name)), query)
                IN  /\ IsRow(c) <=> (byPatient \/ byPayer)
                    /\ c.payer_name = None => (IsRow(c) <=> byPatient)
                    /\ (Includes(ToLowerCase(c.status), query) /\ ~byPatient /\ ~byPayer)
                          => ~IsRow(c)

C16_Witness ==
    /\ ListLoaded /\ searchQuery = <<"2">>
    /\ \E k \in DOMAIN claims :
          /\ claims[k].payer_name = None
          /\ claims[k].status = <<"2">>
          /\ ~IsRow(claims[k])

\* C17: an empty or whitespace-only query shows the whole list, and whitespace
\* around a query does not change the rows.
C17_BlankQueryAndTrim ==
    ListLoaded =>
        /\ Trim(searchQuery) = <<>> => filteredClaims = claims
        /\ filteredClaims = Filter(claims, Trim(searchQuery))

C17_Witness ==
    /\ ListLoaded /\ searchQuery = <<" ">>
    /\ Len(claims) = 2 /\ filteredClaims = claims

\* The list with patient_id and payer_name put through a case conversion.
WithFields(L, conv(_)) ==
    [k \in DOMAIN L |->
        [L[k] EXCEPT !.patient_id = conv(L[k].patient_id),
                     !.payer_name = IF L[k].payer_name = None THEN None
                                    ELSE Some(conv(Val(L[k].payer_name)))]]

\* The positions of L that filter(L, q) selects (ids are unique in a list).
SelectedIds(L, q) == {Filter(L, q)[k].id : k \in DOMAIN Filter(L, q)}

CaseInsensitiveHere ==
    /\ filteredClaims = Filter(claims, ToUpperCase(searchQuery))
    /\ filteredClaims = Filter(claims, ToLowerCase(searchQuery))
    /\ SelectedIds(WithFields(claims, ToUpperCase), searchQuery) = SelectedIds(claims, searchQuery)
    /\ SelectedIds(WithFields(claims, ToLowerCase), searchQuery) = SelectedIds(claims, searchQuery)

\* C18 as stated: for every list and query the rows are those of the
\* upper-cased and of the lower-cased query, and changing the case of
\* patient_id / payer_name does not change the positions selected.
C18_AsStated == ListLoaded => CaseInsensitiveHere

\* Every character of s has a one-to-one case mapping: lower-casing its upper
\* case gives its lower case (true of every ASCII character).
CaseRegular(s) ==
    \A k \in DOMAIN s : ToLowerCase(ToUpperChar(s[k])) = <<ToLowerChar(s[k])>>

FieldsCaseRegular(L) ==
    \A k \in DOMAIN L :
        /\ CaseRegular(L[k].patient_id)
        /\ L[k].payer_name # None => CaseRegular(Val(L[k].payer_name))

\* C18 amended: the rows are those of the lower-cased query for every query;
\* when every character of the query and of the patient_id / payer_name values
\* has a one-to-one case mapping (all ASCII text), the rows are also those of
\* the upper-cased query and changing the case of the fields does not change
\* the positions selected.
C18_CaseInsensitiveOnRegularText ==
    ListLoaded =>
        /\ filteredClaims = Filter(claims, ToLowerCase(searchQuery))
        /\ (CaseRegular(searchQuery) /\ FieldsCaseRegular(claims)) => CaseInsensitiveHere

C18_Witness ==
    /\ ListLoaded /\ searchQuery = <<"P", "1">>
    /\ FieldsCaseRegular(claims)
    /\ \E k \in DOMAIN filteredClaims : filteredClaims[k].payer_name = Some(<<"a", "X">>)

\* C19: a change of the query leaves the held claim list as it was.
C19_QueryLeavesSource ==
    [][(page = "home" /\ page' = "home" /\ searchQuery' # searchQuery) => claims' = claims]_vars

C19_Witness ==
    /\ ListLoaded /\ lastStep = "type"
    /\ searchQuery = <<"s">>
    /\ Len(claims) = 2 /\ Len(filteredClaims) < Len(claims)

\* The flags of a are listed one item each, and an item is marked denied
\* exactly when its text begins with "DENIED".
DeniedPrefixRule(a, items) ==
    /\ Len(items) = (IF HasFlags(a) THEN Len(Val(a.coding_flags)) ELSE 0)
    /\ \A k \in DOMAIN items :
          /\ items[k].text = Val(a.coding_flags)[k]
          /\ items[k].denied <=> (/\ Len(items[k].text) >= 6
                                  /\ items[k].text[1] = "D" /\ items[k].text[2] = "E"
                                  /\ items[k].text[3] = "N" /\ items[k].text[4] = "I"
                                  /\ items[k].text[5] = "E" /\ items[k].text[6] = "D")

\* C20: in the Pipeline-Warning/Error state the message is shown, and the
\* coding flags, when present, are listed with each one marked denied-class
\* exactly when its text begins with "DENIED", as in the Structured-Verdict
\* state.
C20_WarningFlagsMarked ==
    Displayed = {"PipelineWarningError"} =>
        /\ WarningHead(Val(audit)).message = Val(audit).message
        /\ DeniedPrefixRule(Val(audit), FlagItems(Val(audit)))

\* C21: in the Structured-Verdict state a flag is marked denied-class exactly
\* when its first six characters are "DENIED": "DENIED" itself and "DENIED:9"
\* are, a flag that begins "Denied" or "denied", a flag that holds "DENIED"
\* after its first character and a flag shorter than six characters are not.
C21_DeniedIsLiteralPrefix ==
    Displayed = {"StructuredVerdict"} =>
        LET items == FlagItems(Val(audit))
        IN  /\ DeniedPrefixRule(Val(audit), items)
            /\ \A k \in DOMAIN items :
                  /\ items[k].text \in {DeniedFlag, BareDeniedFlag} => items[k].denied
                  /\ items[k].text \in {MixedCaseFlag, LowerCaseFlag, InnerDeniedFlag,
                                        ShortFlag, AdvisoryFlag} => ~items[k].denied

C21_Witness ==
    /\ Displayed = {"StructuredVerdict"}
    /\ \E k, m \in DOMAIN FlagItems(Val(audit)) :
          /\ FlagItems(Val(audit))[k].text = MixedCaseFlag
          /\ FlagItems(Val(audit))[m].text = DeniedFlag
          /\ FlagItems(Val(audit))[m].denied

\* The field is present and, for a string or a list, not empty.
NonEmptyList(o) == o # None /\ Val(o) # <<>>
NonEmptyString(o) == o # None /\ Val(o) # ""

\* C22: in the Structured-Verdict state a section is rendered exactly when its
\* field is present and non-empty: missing_criteria and coding_flags for a
\* non-empty list, suggested_fix, step_failed and policy_source for a non-empty
\* string, confidence_score whenever present (0 included); a body without
\* optional fields renders none of the sections.
C22_SectionsFollowFields ==
    Displayed = {"StructuredVerdict"} =>
        LET a == Val(audit)
            shown == Sections(a)
        IN  /\ ("missing_criteria" \in shown) <=> NonEmptyList(a.missing_criteria)
            /\ ("coding_flags" \in shown) <=> NonEmptyList(a.coding_flags)
            /\ ("suggested_fix" \in shown) <=> NonEmptyString(a.suggested_fix)
            /\ ("step_failed" \in shown) <=> NonEmptyString(a.step_failed)
            /\ ("policy_source" \in shown) <=> NonEmptyString(a.policy_source)
            /\ ("confidence_score" \in shown) <=> a.confidence_score # None
            /\ a.confidence_score = Some(0) => "confidence_score" \in shown
            /\ (/\ a.missing_criteria = None /\ a.coding_flags = None
                /\ a.suggested_fix = None /\ a.step_failed = None
                /\ a.policy_source = None /\ a.confidence_score = None) => shown = {}

C22_Witness ==
    /\ Displayed = {"StructuredVerdict"}
    /\ Val(audit).confidence_score = Some(0)
    /\ Val(audit).suggested_fix = Some("attach notes")
    /\ Val(audit).missing_criteria = Some(<<"prior auth">>)
    /\ Sections(Val(audit)) = {"step_failed", "policy_source", "confidence_score",
                                "coding_flags", "missing_criteria", "suggested_fix"}

ErrorLinks == IF page = "home" THEN HomeErrorLinks ELSE DetailErrorLinks

\* C24: after a failed list load the worklist, and after a failed claim load
\* the detail page, renders its error screen in place of everything else (no
\* table, no columns, no verification panel), and that screen offers a way
\* back.
C24_LoadFailureOffersPathBack ==
    /\ (page = "home" /\ loadOutcome \in FailureOutcomes) =>
          (HomeView = "error" /\ ErrorLinks # {})
    /\ (page = "detail" /\ loadOutcome \in FailureOutcomes) =>
          (DetailView = "error" /\ Displayed = {} /\ ErrorLinks # {})

\* C25: a claim-load response is applied only if it was requested for the id
\* that is open when it arrives, so the claim record the detail page holds is
\* the record of the open id, and a held load error was raised for the open id.
C25_ClaimIsOfOpenId ==
    page = "detail" =>
        /\ claim # None => Val(claim).id = id
        /\ (claim # None \/ error # None) => claimFor = Some(id)

\* C26: the mounted page shows its waiting indication exactly while its
\* request is unresolved: loading while the list load (worklist) or the claim
\* load (detail page) is in flight, auditing while the verification request is.
C26_WaitingIffInFlight ==
    /\ page = "home" => (listLoading <=> InFlight("list") # {})
    /\ page = "detail" =>
          /\ loading <=> InFlight("claim") # {}
          /\ auditing <=> InFlight("verify") # {}

\* Once the list load of the mounted worklist has completed.
ListLoadDone == page = "home" /\ loadOutcome # "pending"

C27_AfterLoad ==
    ListLoadDone =>
        /\ ~listLoading
        /\ listError # None <=> loadOutcome \in FailureOutcomes
        /\ loadOutcome \in FailureOutcomes => (claims = <<>> /\ filteredClaims = <<>>)

C27_LoadingStaysFalse ==
    (page = "home" /\ page' = "home" /\ ~listLoading) => ~listLoading'

\* C27: once the worklist's list load has completed, loading is false and
\* stays false; the list error is non-null exactly when the load failed
\* (non-success status, network failure, unparseable body); and after a failed
\* load the claim list and the rows are empty from then on.
C27_ListLoadOutcome == []C27_AfterLoad /\ [][C27_LoadingStaysFalse]_vars

C27_Witness ==
    /\ ListLoadDone /\ loadOutcome = "network"
    /\ listError = Some("Failed to fetch")
    /\ claims = <<>> /\ filteredClaims = <<>> /\ ~listLoading

\* The panel has left Running for Transport-Failed or a result state.
AuditSettled ==
    /\ page = "detail" /\ ~auditing
    /\ Cardinality(PanelBlocks) = 1
    /\ PanelBlocks \subseteq ({"TransportFailed"} \cup ResultStates)

C28_RunningOnlyByTrigger ==
    (page = "detail" /\ page' = "detail" /\ ~auditing /\ auditing') => lastStep' = "click"

\* C28: if the verification request resolves, an audit that was triggered
\* leaves Running: the panel reaches Transport-Failed or a result state with
\* auditing false (unless the page is left first), and auditing becomes true
\* again only by a trigger.
C28_AuditLeavesRunning ==
    /\ (page = "detail" /\ auditing) ~> (AuditSettled \/ page # "detail")
    /\ [][C28_RunningOnlyByTrigger]_vars

C28_Witness ==
    /\ AuditSettled /\ auditOutcome = "parse"
    /\ lastStep = "response" /\ InFlight("verify") = {}

\* C29: filtering the rows again by the same query gives the same rows, for
\* the loaded list and every query typed.
C29_FilterIdempotent ==
    ListLoaded =>
        /\ Filter(filteredClaims, searchQuery) = filteredClaims
        /\ \A q \in Queries : Filter(Filter(claims, q), q) = Filter(claims, q)

C29_Witness ==
    /\ ListLoaded /\ lastStep = "type" /\ searchQuery = <<"2">>
    /\ Len(claims) = 2 /\ Len(filteredClaims) = 1
    /\ Filter(filteredClaims, searchQuery) = filteredClaims

\* The query as the filter compares it.
Normalized(q) == Trim(ToLowerCase(q))

\* C30: when the normalized form of a query q1 occurs in the normalized current
\* query, the rows are a subsequence of the rows of q1 (a longer query keeps or
\* removes rows, never adds one), and the rows are never more than the claims.
C30_LongerQueryNeverAddsRows ==
    ListLoaded =>
        /\ \A q1 \in Queries :
              Includes(Normalized(searchQuery), Normalized(q1))
                  => IsSubsequence(filteredClaims, Filter(claims, q1))
        /\ Len(filteredClaims) <= Len(claims)

C30_Witness ==
    /\ ListLoaded /\ searchQuery = <<"P", "1">>
    /\ Len(Filter(claims, <<"p">>)) = 2
    /\ Len(filteredClaims) = 1
====
